---- MODULE Spec2Model ----
(***************************************************************************)
(* A model of the llvm-ir crate's module construction: the two passes of   *)
(* Module::from_llvm_ref over the global objects of a foreign module, the  *)
(* memoised decoding of constants, the named struct table of the type      *)
(* interner, and the type computation of constant expressions.             *)
(***************************************************************************)
EXTENDS Integers, Sequences, FiniteSets, TLC

(***************************************************************************)
(* Bounds of the model.                                                    *)
(***************************************************************************)
MaxDefined == 2
MaxDeclared == 1
MaxGlobals == 1
MaxAliases == 1
NumConsts == 3
MaxCalls == 2
MaxIndexValue == 2
MaxIndices == 3
NumStructs == 2
MaxTypeCalls == 2

VARIABLES
    \* ---- Constant::parse_from_llvm_ref on integer and struct constants ----
    fvalue,         \* the foreign constant handed to the decoder
    decoded,        \* the Constant decoded from it; NotDecoded before
    decoded_ty,     \* get_type of the decoded Constant; NotComputed before
    \* ---- Module::from_bc_path and the external reader ----
    create_rc,      \* return code of LLVMCreateMemoryBufferWithContentsOfFile
    parse_rc,       \* return code of LLVMParseBitcodeInContext2
    memory_buffer,  \* "null", "live" or "disposed"
    disposals,      \* how many times LLVMDisposeMemoryBuffer has been called
    bc_result,      \* what from_bc_path returned; NoResult while it has not
    \* ---- the foreign module handed to Module::from_llvm_ref ----
    fm,             \* per category, the sequence of "has an explicit name" flags
    refMode,        \* what the initializers / aliasees are (fixed when pass 2 reaches them)
    badIdx,         \* index (globals then aliases) of the object of non-pointer type, 0 = none
    \* ---- Module::from_llvm_ref ----
    pc,             \* position in from_llvm_ref
    lookup,         \* the last get_func_by_name query on the built Module
    global_ctr,     \* the counter numbering unnamed global objects
    gnmap,          \* GlobalNameMap: set of <<handle, Name>> pairs
    functions,      \* Module.functions
    global_vars,    \* Module.global_vars
    global_aliases, \* Module.global_aliases
    \* ---- the foreign constants handed to Constant::from_llvm_ref ----
    fconsts,        \* per foreign constant handle, the handles of its operands
    \* ---- ModuleContext.constants and the decoding in progress ----
    constants,      \* the cache: foreign handle -> ConstantRef
    arena,          \* the allocations behind the ConstantRefs, in allocation order
    cstack,         \* the active calls of Constant::from_llvm_ref that missed the cache
    parses,         \* per handle, how often parse_from_llvm_ref ran on it
    returned,       \* every <<handle, ConstantRef>> a call of from_llvm_ref returned
    nreturns,       \* per handle, how many calls of from_llvm_ref returned for it
    ncalls,         \* calls of from_llvm_ref made by the module translation
    cstatus,        \* "run", or "panic" after the Entry::Occupied fault
    \* ---- Typed::get_type on one constant ----
    debug_assertions, \* is the crate built with debug assertions (cfg(debug_assertions))
    expr,           \* the constant whose type is asked for
    result,         \* NotComputed, the TypeRef returned, or Panic
    \* ---- the foreign named struct types handed to Type::from_llvm_ref ----
    ftypes,         \* per struct name: is it opaque, and the elements of its body
    \* ---- the named struct table and the translation in progress ----
    tynamemap,      \* TyNameMap: struct name -> entry
    cells,          \* the shared bodies the entries own, in allocation order
    tstack,         \* the named structs whose bodies are being translated
    produced,       \* the Types returned to the callers of Type::from_llvm_ref
    tcalls          \* calls of Type::from_llvm_ref made by the module translation

readerVars == <<create_rc, parse_rc, memory_buffer, disposals, bc_result>>
buildVars ==
    <<readerVars, fm, refMode, badIdx, pc, lookup, global_ctr, gnmap, functions,
      global_vars, global_aliases>>
constVars == <<fconsts, constants, arena, cstack, parses, returned, nreturns, ncalls, cstatus>>

gtVars == <<debug_assertions, expr, result>>
tyVars == <<ftypes, tynamemap, cells, tstack, produced, tcalls>>
decVars == <<fvalue, decoded, decoded_ty>>

nonBuildVars == <<constVars, gtVars, tyVars, decVars>>
nonConstVars == <<buildVars, gtVars, tyVars, decVars>>
nonGtVars == <<buildVars, constVars, tyVars, decVars>>
nonTyVars == <<buildVars, constVars, gtVars, decVars>>
nonDecVars == <<buildVars, constVars, gtVars, tyVars>>

(***************************************************************************)
(* Type and the constructors of the Types interner                         *)
(***************************************************************************)
IntegerType(bits) == [kind |-> "IntegerType", bits |-> bits]
FPType(fp) == [kind |-> "FPType", fp |-> fp]
PointerTypeIn(t, as) == [kind |-> "PointerType", pointee_type |-> t, addr_space |-> as]
VectorType(t, n) == [kind |-> "VectorType", element_type |-> t, num_elements |-> n]
ArrayType(t, n) == [kind |-> "ArrayType", element_type |-> t, num_elements |-> n]
StructType(ts, packed) == [kind |-> "StructType", element_types |-> ts, is_packed |-> packed]
NamedStructType(name) == [kind |-> "NamedStructType", name |-> name]

\* the outcome of a computation that panicked
Panic == [kind |-> "panic"]

\* types.pointer_to(t): a pointer in the default address space
pointer_to(t) == PointerTypeIn(t, 0)

\* NamedStructDef
Opaque == [def |-> "Opaque"]
Defined(t) == [def |-> "Defined", ty |-> t]
NoDef == [def |-> "None"]

\* types.named_struct_def(name) on a table of named struct definitions
named_struct_def(types, name) ==
    IF name \in DOMAIN types THEN types[name] ELSE NoDef

(***************************************************************************)
(* Foreign handles and the enumeration order of pass 1.                    *)
(***************************************************************************)
Categories == <<"defined", "declared", "globals", "aliases">>

Handle(cat, i) == [cat |-> cat, idx |-> i]

\* An IFunc is a global value that none of the four iterators enumerates.
IFuncHandle == [cat |-> "ifunc", idx |-> 1]

HandlesOf(m, cat) == [i \in 1..Len(m[cat]) |-> Handle(cat, i)]

get_defined_functions(m) == HandlesOf(m, "defined")
get_declared_functions(m) == HandlesOf(m, "declared")
get_globals(m) == HandlesOf(m, "globals")
get_global_aliases(m) == HandlesOf(m, "aliases")

\* an enumeration that starts with the global variables and aliases
Pass1OrderGlobalsFirst(m) ==
    get_globals(m) \o get_global_aliases(m)
        \o get_defined_functions(m) \o get_declared_functions(m)

\* the chained iterator of pass 1
Pass1Order(m) ==
    get_defined_functions(m) \o get_declared_functions(m)
        \o get_globals(m) \o get_global_aliases(m)

\* the value name of a global object: the empty string when it has none
get_value_name(m, h) ==
    IF m[h.cat][h.idx] THEN h.cat \o ToString(h.idx) ELSE ""

(***************************************************************************)
(* Name                                                                    *)
(***************************************************************************)
NameName(s) == [kind |-> "Name", name |-> s, num |-> 0]
NameNumber(n) == [kind |-> "Number", name |-> "", num |-> n]

\* Name::name_or_num(s, &mut ctr): <<the Name, the counter afterwards>>
name_or_num(s, ctr) ==
    IF s = "" THEN <<NameNumber(ctr), ctr + 1>> ELSE <<NameName(s), ctr>>

(***************************************************************************)
(* GlobalNameMap                                                           *)
(***************************************************************************)
GnmapHas(map, h) == \E p \in map : p[1] = h
GnmapGet(map, h) == (CHOOSE p \in map : p[1] = h)[2]

(***************************************************************************)
(* Foreign types of global objects (LLVMTypeOf of a global) and the        *)
(* foreign initializer / aliasee of each object.                           *)
(***************************************************************************)

\* position of a global variable or alias among globals followed by aliases
ObjIndex(m, h) == IF h.cat = "globals" THEN h.idx ELSE Len(m["globals"]) + h.idx

TypeOfGlobal(m, bad, h) ==
    IF ObjIndex(m, h) = bad THEN IntegerType(32)
    ELSE PointerTypeIn(IntegerType(32), ObjIndex(m, h) % 2)

IndexIn(seq, x) == CHOOSE i \in 1..Len(seq) : seq[i] = x

NullHandle == [cat |-> "null", idx |-> 0]

\* Foreign constants that are no global values: a struct constant whose type
\* is an opaque named struct, a constant expression with an opcode the decoder
\* does not know, and a constant of a value kind it does not know.
OpaqueStructConstant == [cat |-> "ConstantStruct", idx |-> 0]
UnexpectedOpcodeExpr == [cat |-> "ConstantExpr", idx |-> 0]
UnknownKindConstant == [cat |-> "UnknownValueKind", idx |-> 0]

\* The foreign constant that is the initializer or aliasee of h: a global
\* value, one of the constants above, or NullHandle.
RefTarget(m, mode, h) ==
    LET order == Pass1Order(m)
        i == IndexIn(order, h)
    IN  CASE mode = "none" -> IF h.cat = "aliases" THEN order[1] ELSE NullHandle
          [] mode = "self" -> h
          [] mode = "next" -> order[(i % Len(order)) + 1]
          [] mode = "prev" -> order[((i + Len(order) - 2) % Len(order)) + 1]
          [] mode = "opaque_struct" -> OpaqueStructConstant
          [] mode = "bad_opcode" -> UnexpectedOpcodeExpr
          [] mode = "bad_kind" -> UnknownKindConstant
          [] OTHER -> IFuncHandle

RefModes ==
    {"none", "self", "next", "prev", "ifunc", "opaque_struct", "bad_opcode", "bad_kind"}

(***************************************************************************)
(* Constant::parse_from_llvm_ref, the global-value branch: the Name comes  *)
(* from the name map; a handle missing from the map is a panic.            *)
(***************************************************************************)
\* a GlobalReference whose Name is derived from the foreign handle again
GlobalReferenceDerived(map, h) ==
    [kind |-> "GlobalReference",
     name |-> [kind |-> "Name", name |-> h.cat \o ToString(h.idx), num |-> 0],
     target |-> h]

GlobalReference(map, h) ==
    IF GnmapHas(map, h)
    THEN [kind |-> "GlobalReference", name |-> GnmapGet(map, h), target |-> h]
    ELSE [kind |-> "panic"]

IsPanic(c) == c.kind = "panic"

\* a decoder that turns what it cannot decode into an Undef
parse_from_llvm_ref_lenient(map, h) ==
    IF h.cat \in {"defined", "declared", "globals", "aliases", "ifunc"}
    THEN GlobalReference(map, h)
    ELSE [kind |-> "Undef"]

\* Constant::parse_from_llvm_ref on an initializer or aliasee
parse_from_llvm_ref(map, h) ==
    CASE h = OpaqueStructConstant -> [kind |-> "panic"]
      [] h = UnexpectedOpcodeExpr -> [kind |-> "panic"]
      [] h.cat \in {"defined", "declared", "globals", "aliases", "ifunc"} ->
            GlobalReference(map, h)
      [] OTHER -> [kind |-> "panic"]

(***************************************************************************)
(* Module::from_llvm_ref                                                   *)
(***************************************************************************)
FmSeqs(n) == UNION {[1..k -> BOOLEAN] : k \in 0..n}

\* the values of Result<Module, String>
NoResult == [kind |-> "none"]
Ok == [kind |-> "Ok"]
Err(msg) == [kind |-> "Err", msg |-> msg]

\* the return codes of the reader: 0, or a failure
ReturnCodes == {0, 1}

\* the modules the reader can hand over
ForeignModules ==
    [defined : FmSeqs(MaxDefined), declared : FmSeqs(MaxDeclared),
     globals : FmSeqs(MaxGlobals), aliases : FmSeqs(MaxAliases)]

\* no module has been parsed yet
NoModule == [defined |-> <<>>, declared |-> <<>>, globals |-> <<>>, aliases |-> <<>>]

\* Option::None
None == [kind |-> "None"]

\* no query has been made
NotQueried == [queried |-> FALSE, name |-> "", result |-> None]

BuildInit ==
    /\ create_rc \in ReturnCodes
    /\ parse_rc \in ReturnCodes
    /\ memory_buffer = "null"
    /\ disposals = 0
    /\ bc_result = NoResult
    /\ fm = NoModule
    /\ refMode = "none"
    /\ badIdx = 0
    /\ pc = "from_bc_path"
    /\ lookup = NotQueried
    /\ global_ctr = 0
    /\ gnmap = {}
    /\ functions = <<>>
    /\ global_vars = <<>>
    /\ global_aliases = <<>>

BuildIdle ==
    /\ create_rc = 0
    /\ parse_rc = 0
    /\ memory_buffer = "null"
    /\ disposals = 0
    /\ bc_result = NoResult
    /\ fm = NoModule
    /\ refMode = "none"
    /\ badIdx = 0
    /\ pc = "idle"
    /\ lookup = NotQueried
    /\ global_ctr = 0
    /\ gnmap = {}
    /\ functions = <<>>
    /\ global_vars = <<>>
    /\ global_aliases = <<>>

\* an early return that reports the parse failure as success
ParseFailedOk(rc) == Ok

\* the early return when LLVMCreateMemoryBufferWithContentsOfFile failed
CreateFailed(rc) == Err("err_string")

\* the early return when LLVMParseBitcodeInContext2 failed
ParseFailed(rc) == Err("Failed to parse bitcode")

\* from_bc_path, first step: the file is read into a memory buffer
CreateMemoryBuffer ==
    /\ pc = "from_bc_path"
    /\ IF create_rc # 0
       THEN /\ bc_result' = CreateFailed(create_rc)
            /\ pc' = "err"
            /\ UNCHANGED memory_buffer
       ELSE /\ memory_buffer' = "live"
            /\ pc' = "parse"
            /\ UNCHANGED bc_result
    /\ UNCHANGED <<create_rc, parse_rc, disposals, fm, refMode, badIdx, global_ctr, gnmap,
                   functions, global_vars, global_aliases>>
    /\ UNCHANGED lookup
    /\ UNCHANGED nonBuildVars

\* a disposal that is skipped on the early return
DisposalsAfterParseOk(rc, n) == IF rc # 0 THEN n ELSE n + 1

\* LLVMDisposeMemoryBuffer(memory_buffer) follows the parse call directly,
\* before the return code is looked at
DisposalsAfterParse(rc, n) == n + 1

\* from_bc_path, second step: the bitcode is parsed and the buffer disposed
\* of; on success the reader hands over a module and Module::from_llvm_ref
\* is entered
ParseBitcode ==
    /\ pc = "parse"
    /\ memory_buffer' = "disposed"
    /\ disposals' = DisposalsAfterParse(parse_rc, disposals)
    /\ IF parse_rc # 0
       THEN /\ bc_result' = ParseFailed(parse_rc)
            /\ pc' = "err"
            /\ UNCHANGED fm
       ELSE /\ pc' = "pass1"
            /\ fm' \in ForeignModules
            /\ UNCHANGED bc_result
    /\ UNCHANGED <<create_rc, parse_rc, refMode, badIdx, global_ctr, gnmap, functions,
                   global_vars, global_aliases>>
    /\ UNCHANGED lookup
    /\ UNCHANGED nonBuildVars

\* pass 1, one element of the chained iterator: map the handle to its Name
Pass1Step ==
    /\ pc = "pass1"
    /\ Cardinality(gnmap) < Len(Pass1Order(fm))
    /\ LET g == Pass1Order(fm)[Cardinality(gnmap) + 1]
           r == name_or_num(get_value_name(fm, g), global_ctr)
       IN  /\ gnmap' = gnmap \cup {<<g, r[1]>>}
           /\ global_ctr' = r[2]
    /\ UNCHANGED <<fm, refMode, badIdx, pc, functions, global_vars, global_aliases>>
    /\ UNCHANGED readerVars
    /\ UNCHANGED lookup
    /\ UNCHANGED nonBuildVars

\* the counter the second pass starts from
ResetValue == 0

\* "global_ctr = 0; // reset the global_ctr"
ResetCtr ==
    /\ pc = "pass1"
    /\ Cardinality(gnmap) = Len(Pass1Order(fm))
    /\ global_ctr' = ResetValue
    /\ pc' = "functions"
    /\ UNCHANGED <<fm, refMode, badIdx, gnmap, functions, global_vars, global_aliases>>
    /\ UNCHANGED readerVars
    /\ UNCHANGED lookup
    /\ UNCHANGED nonBuildVars

\* Function::from_llvm_ref(f, &gnmap, &mut tynamemap): takes no counter;
\* a Function is named by a String
FunctionFromLlvmRef(m, f) == [name |-> get_value_name(m, f), handle |-> f]

TranslateFunction ==
    /\ pc = "functions"
    /\ Len(functions) < Len(get_defined_functions(fm))
    /\ functions' = Append(functions,
            FunctionFromLlvmRef(fm, get_defined_functions(fm)[Len(functions) + 1]))
    /\ UNCHANGED <<fm, refMode, badIdx, pc, global_ctr, gnmap, global_vars, global_aliases>>
    /\ UNCHANGED readerVars
    /\ UNCHANGED lookup
    /\ UNCHANGED nonBuildVars

\* the functions are collected; the types, initializers and aliasees of the
\* global variables and aliases are read for the first time from here on
FunctionsDone ==
    /\ pc = "functions"
    /\ Len(functions) = Len(get_defined_functions(fm))
    /\ pc' = "globals"
    /\ refMode' \in RefModes
    /\ badIdx' \in 0..(Len(fm.globals) + Len(fm.aliases))
    /\ UNCHANGED <<fm, global_ctr, gnmap, functions, global_vars, global_aliases>>
    /\ UNCHANGED readerVars
    /\ UNCHANGED lookup
    /\ UNCHANGED nonBuildVars

\* an address space that is always the default one
AddrSpaceDefault(ty) == 0

\* addr_space: match ty { Type::PointerType { addr_space, .. } => addr_space, .. }
AddrSpaceOf(ty) == ty.addr_space

\* GlobalVariable::from_llvm_ref: <<"ok" or "panic", the record, the counter afterwards>>
GlobalVariableFromLlvmRef(m, mode, bad, global, ctr, map) ==
    LET ty == TypeOfGlobal(m, bad, global)
        nm == name_or_num(get_value_name(m, global), ctr)
        it == RefTarget(m, mode, global)
        init == IF it = NullHandle THEN [kind |-> "None"] ELSE parse_from_llvm_ref(map, it)
    IN  IF ty.kind # "PointerType" \/ IsPanic(init)
        THEN <<"panic", [handle |-> global], nm[2]>>
        ELSE <<"ok",
               [name |-> nm[1], ty |-> ty, addr_space |-> AddrSpaceOf(ty),
                initializer |-> init, handle |-> global],
               nm[2]>>

TranslateGlobalVar ==
    /\ pc = "globals"
    /\ Len(global_vars) < Len(get_globals(fm))
    /\ LET r == GlobalVariableFromLlvmRef(fm, refMode, badIdx,
                    get_globals(fm)[Len(global_vars) + 1], global_ctr, gnmap)
       IN  /\ global_ctr' = r[3]
           /\ IF r[1] = "panic"
              THEN pc' = "panic" /\ UNCHANGED global_vars
              ELSE pc' = pc /\ global_vars' = Append(global_vars, r[2])
    /\ UNCHANGED <<fm, refMode, badIdx, gnmap, functions, global_aliases>>
    /\ UNCHANGED readerVars
    /\ UNCHANGED lookup
    /\ UNCHANGED nonBuildVars

GlobalsDone ==
    /\ pc = "globals"
    /\ Len(global_vars) = Len(get_globals(fm))
    /\ pc' = "aliases"
    /\ UNCHANGED <<fm, refMode, badIdx, global_ctr, gnmap, functions, global_vars, global_aliases>>
    /\ UNCHANGED readerVars
    /\ UNCHANGED lookup
    /\ UNCHANGED nonBuildVars

\* GlobalAlias::from_llvm_ref
GlobalAliasFromLlvmRef(m, mode, bad, alias, ctr, map) ==
    LET ty == TypeOfGlobal(m, bad, alias)
        nm == name_or_num(get_value_name(m, alias), ctr)
        aliasee == parse_from_llvm_ref(map, RefTarget(m, mode, alias))
    IN  IF IsPanic(aliasee) \/ ty.kind # "PointerType"
        THEN <<"panic", [handle |-> alias], nm[2]>>
        ELSE <<"ok",
               [name |-> nm[1], aliasee |-> aliasee, ty |-> ty,
                addr_space |-> AddrSpaceOf(ty), handle |-> alias],
               nm[2]>>

TranslateAlias ==
    /\ pc = "aliases"
    /\ Len(global_aliases) < Len(get_global_aliases(fm))
    /\ LET r == GlobalAliasFromLlvmRef(fm, refMode, badIdx,
                    get_global_aliases(fm)[Len(global_aliases) + 1], global_ctr, gnmap)
       IN  /\ global_ctr' = r[3]
           /\ IF r[1] = "panic"
              THEN pc' = "panic" /\ UNCHANGED global_aliases
              ELSE pc' = pc /\ global_aliases' = Append(global_aliases, r[2])
    /\ UNCHANGED <<fm, refMode, badIdx, gnmap, functions, global_vars>>
    /\ UNCHANGED readerVars
    /\ UNCHANGED lookup
    /\ UNCHANGED nonBuildVars

\* the Module value is complete: from_llvm_ref returns it and from_bc_path
\* returns Ok(module)
Finish ==
    /\ pc = "aliases"
    /\ Len(global_aliases) = Len(get_global_aliases(fm))
    /\ pc' = "done"
    /\ bc_result' = Ok
    /\ UNCHANGED <<create_rc, parse_rc, memory_buffer, disposals>>
    /\ UNCHANGED <<fm, refMode, badIdx, global_ctr, gnmap, functions, global_vars, global_aliases>>
    /\ UNCHANGED lookup
    /\ UNCHANGED nonBuildVars

\* a lookup that returns the last Function of that name
get_func_by_name_last(funcs, name) ==
    LET matches == {i \in 1..Len(funcs) : funcs[i].name = name}
    IN  IF matches = {} THEN None
        ELSE funcs[CHOOSE i \in matches : \A j \in matches : j <= i]

\* Module::get_func_by_name: self.functions.iter().find(|func| func.name == name)
get_func_by_name(funcs, name) ==
    LET matches == {i \in 1..Len(funcs) : funcs[i].name = name}
    IN  IF matches = {} THEN None
        ELSE funcs[CHOOSE i \in matches : \A j \in matches : i <= j]

\* the names a caller asks for: those of the module's functions, defined or
\* only declared, and one that no function has
QueryNames(m) ==
    UNION {{get_value_name(m, Handle(c, i)) : i \in 1..Len(m[c])} :
                c \in {"defined", "declared"}}
        \cup {"nosuch"}

\* a caller queries the Module that from_bc_path returned
GetFuncByName ==
    /\ pc = "done"
    /\ \E name \in QueryNames(fm) :
          lookup' = [queried |-> TRUE, name |-> name,
                     result |-> get_func_by_name(functions, name)]
    /\ UNCHANGED <<readerVars, fm, refMode, badIdx, pc, global_ctr, gnmap, functions,
                   global_vars, global_aliases>>
    /\ UNCHANGED nonBuildVars

(***************************************************************************)
(* Constant::from_llvm_ref: the memoised decoding of foreign constants     *)
(***************************************************************************)
ConstHandles == 1..NumConsts

\* Operand lists of a foreign constant: none (a literal), one (a conversion)
\* or two (a binary operation); operands are constants created earlier.
OperandLists(h) ==
    {<<>>} \cup {<<a>> : a \in 1..(h - 1)}
           \cup {<<a, b>> : a \in 1..(h - 1), b \in 1..(h - 1)}

NoRef == 0

\* a lookup that never finds the handle
CacheGetMiss(cache, h) == NoRef

\* ctx.constants.get(&constant)
CacheGet(cache, h) == IF h \in DOMAIN cache THEN cache[h] ELSE NoRef

\* an insertion that evicts what the cache held
CacheInsertEvict(cache, h, ref) == (h :> ref)

\* Entry::Vacant(ventry) => ventry.insert(ConstantRef::new(parsed))
CacheInsert(cache, h, ref) == cache @@ (h :> ref)

\* ConstantRef::new(parsed): a fresh allocation
ConstantRefNew(heap, parsed) == <<Len(heap) + 1, Append(heap, parsed)>>

ConstIdle ==
    /\ fconsts = <<>>
    /\ constants = <<>>
    /\ arena = <<>>
    /\ cstack = <<>>
    /\ parses = <<>>
    /\ returned = {}
    /\ nreturns = <<>>
    /\ ncalls = 0
    /\ cstatus = "run"

ConstInit ==
    /\ fconsts \in {f \in [ConstHandles -> UNION {OperandLists(h) : h \in ConstHandles}] :
                        \A h \in ConstHandles : f[h] \in OperandLists(h)}
    /\ constants = <<>>
    /\ arena = <<>>
    /\ cstack = <<>>
    /\ parses = [h \in ConstHandles |-> 0]
    /\ returned = {}
    /\ nreturns = [h \in ConstHandles |-> 0]
    /\ ncalls = 0
    /\ cstatus = "run"

\* a call from_llvm_ref(h) returns ref to the frame below it, if there is one
ReturnTo(stack, ref) ==
    IF stack = <<>> THEN stack
    ELSE [stack EXCEPT ![Len(stack)].refs = Append(@, ref)]

\* from_llvm_ref(h), lines 905-908: a cache hit returns at once, a miss
\* starts parse_from_llvm_ref(h) with the calling frames `stack` below it
EnterFromLlvmRef(h, stack) ==
    LET hit == CacheGet(constants, h)
    IN  IF hit # NoRef
        THEN /\ cstack' = ReturnTo(stack, hit)
             /\ returned' = returned \cup {<<h, hit>>}
             /\ nreturns' = [nreturns EXCEPT ![h] = @ + 1]
             /\ UNCHANGED parses
        ELSE /\ cstack' = Append(stack, [h |-> h, refs |-> <<>>])
             /\ parses' = [parses EXCEPT ![h] = @ + 1]
             /\ UNCHANGED <<returned, nreturns>>

\* the module translation asks for a constant (an initializer, an aliasee, an operand)
CallFromLlvmRef ==
    /\ cstatus = "run"
    /\ cstack = <<>>
    /\ ncalls < MaxCalls
    /\ \E h \in ConstHandles : EnterFromLlvmRef(h, cstack)
    /\ ncalls' = ncalls + 1
    /\ UNCHANGED <<fconsts, constants, arena, cstatus>>
    /\ UNCHANGED nonConstVars

\* parse_from_llvm_ref decodes its next operand with a nested from_llvm_ref
DecodeOperand ==
    /\ cstatus = "run"
    /\ cstack # <<>>
    /\ LET top == cstack[Len(cstack)]
       IN  /\ Len(top.refs) < Len(fconsts[top.h])
           /\ EnterFromLlvmRef(fconsts[top.h][Len(top.refs) + 1], cstack)
    /\ UNCHANGED <<fconsts, constants, arena, ncalls, cstatus>>
    /\ UNCHANGED nonConstVars

\* from_llvm_ref, lines 909-912: the parsed constant goes into the cache
InsertParsed ==
    /\ cstatus = "run"
    /\ cstack # <<>>
    /\ LET top == cstack[Len(cstack)]
           rest == SubSeq(cstack, 1, Len(cstack) - 1)
           new == ConstantRefNew(arena, [handle |-> top.h, operands |-> top.refs])
       IN  /\ Len(top.refs) = Len(fconsts[top.h])
           /\ IF top.h \in DOMAIN constants
              THEN /\ cstatus' = "panic"
                   /\ UNCHANGED <<constants, arena, cstack, returned, nreturns>>
              ELSE /\ constants' = CacheInsert(constants, top.h, new[1])
                   /\ arena' = new[2]
                   /\ cstack' = ReturnTo(rest, new[1])
                   /\ returned' = returned \cup {<<top.h, new[1]>>}
                   /\ nreturns' = [nreturns EXCEPT ![top.h] = @ + 1]
                   /\ UNCHANGED cstatus
    /\ UNCHANGED <<fconsts, parses, ncalls>>
    /\ UNCHANGED nonConstVars

(***************************************************************************)
(* Constant and Typed::get_type                                            *)
(***************************************************************************)
ConstInt(bits, value) == [kind |-> "Int", bits |-> bits, value |-> value]
Null(t) == [kind |-> "Null", ty |-> t]
ConstantStruct(values, is_packed) ==
    [kind |-> "Struct", name |-> [kind |-> "None"], values |-> values, is_packed |-> is_packed]
AggregateZero(t) == [kind |-> "AggregateZero", ty |-> t]
Undef(t) == [kind |-> "Undef", ty |-> t]
Add(a, b) == [kind |-> "Add", operand0 |-> a, operand1 |-> b]
ExtractValue(agg, idx) == [kind |-> "ExtractValue", aggregate |-> agg, indices |-> idx]
InsertValue(agg, el, idx) ==
    [kind |-> "InsertValue", aggregate |-> agg, element |-> el, indices |-> idx]
GetElementPtr(addr, idx) ==
    [kind |-> "GetElementPtr", address |-> addr, indices |-> idx, in_bounds |-> TRUE]
\* the binary operations declared with impl_binop!, by the name of the variant
BinOp(op, a, b) == [kind |-> op, operand0 |-> a, operand1 |-> b]
ShuffleVector(a, b, mask) ==
    [kind |-> "ShuffleVector", operand0 |-> a, operand1 |-> b, mask |-> mask]
ICmp(a, b) == [kind |-> "ICmp", predicate |-> "EQ", operand0 |-> a, operand1 |-> b]
FCmp(a, b) == [kind |-> "FCmp", predicate |-> "OEQ", operand0 |-> a, operand1 |-> b]
Select(c, t, f) ==
    [kind |-> "Select", condition |-> c, true_value |-> t, false_value |-> f]

\* the variants typed by binop_same_type! and by binop_left_type!
SameTypeOps ==
    {"Add", "Sub", "Mul", "UDiv", "SDiv", "URem", "SRem", "And", "Or", "Xor",
     "FAdd", "FSub", "FMul", "FDiv", "FRem"}
LeftTypeOps == {"Shl", "LShr", "AShr"}

\* element_types.get(i): the field type, or Panic for the failed expect()
FieldAt(element_types, i) ==
    IF i < Len(element_types) THEN element_types[i + 1] ELSE Panic

\* an array step that checks the index against the length of the array
EvArrayStepChecked(cur_type, index) ==
    IF index < cur_type.num_elements THEN cur_type.element_type ELSE Panic

\* ev_type at an ArrayType: the element type, whatever the index
EvArrayStep(cur_type, index) == cur_type.element_type

RECURSIVE ev_type(_, _)
\* ev_type(cur_type, indices)
ev_type(cur_type, indices) ==
    IF indices = <<>> THEN cur_type
    ELSE LET index == Head(indices)
         IN  CASE cur_type.kind = "ArrayType" ->
                    ev_type(EvArrayStep(cur_type, index), Tail(indices))
               [] cur_type.kind = "StructType" ->
                    IF FieldAt(cur_type.element_types, index) = Panic THEN Panic
                    ELSE ev_type(FieldAt(cur_type.element_types, index), Tail(indices))
               [] OTHER -> Panic

\* a struct step that takes field 0 when the index is not a literal
GepStructStepLenient(element_types, index) ==
    IF index.kind = "Int" THEN FieldAt(element_types, index.value)
    ELSE FieldAt(element_types, 0)

\* gep_type at a StructType: the index must be a Constant::Int
GepStructStep(element_types, index) ==
    IF index.kind = "Int" THEN FieldAt(element_types, index.value) ELSE Panic

\* a sequential step that insists on a literal index
GepSequentialStepChecked(cur_type, index) ==
    IF index.kind # "Int" THEN Panic
    ELSE IF cur_type.kind = "PointerType" THEN cur_type.pointee_type
    ELSE cur_type.element_type

\* gep_type at a PointerType, VectorType or ArrayType: one level down,
\* whatever the index
GepSequentialStep(cur_type, index) ==
    IF cur_type.kind = "PointerType" THEN cur_type.pointee_type
    ELSE cur_type.element_type

\* a named struct step that does not consult the table
GepNamedStructStepNoTable(name, index, types) == Panic

\* gep_type at a NamedStructType: through the table of definitions
GepNamedStructStep(name, index, types) ==
    LET def == named_struct_def(types, name)
    IN  CASE def = NoDef -> Panic
          [] def = Opaque -> Panic
          [] OTHER ->
                IF def.ty.kind = "StructType"
                THEN IF index.kind = "Int"
                     THEN FieldAt(def.ty.element_types, index.value)
                     ELSE Panic
                ELSE Panic

\* the type one index leads to from cur_type, or Panic
GepStep(cur_type, index, types) ==
    CASE cur_type.kind \in {"PointerType", "VectorType", "ArrayType"} ->
            GepSequentialStep(cur_type, index)
      [] cur_type.kind = "StructType" ->
            GepStructStep(cur_type.element_types, index)
      [] cur_type.kind = "NamedStructType" ->
            GepNamedStructStep(cur_type.name, index, types)
      [] OTHER -> Panic

RECURSIVE gep_type(_, _, _)
\* gep_type(cur_type, indices, types)
gep_type(cur_type, indices, types) ==
    IF indices = <<>> THEN pointer_to(cur_type)
    ELSE LET next == GepStep(cur_type, Head(indices), types)
         IN  IF next = Panic THEN Panic ELSE gep_type(next, Tail(indices), types)

RECURSIVE get_type(_, _)

\* debug_assert_eq!(t, types.type_of(other)): TRUE when the assertion fails.
\* Without debug assertions the macro expands to nothing and `other` is not
\* even typed.
DebugAssertEqFails(t, other, types) ==
    debug_assertions /\ get_type(other, types) # t

\* binop_same_type!
binop_same_type(c, types) ==
    LET t == get_type(c.operand0, types)
    IN  IF t = Panic THEN Panic
        ELSE IF DebugAssertEqFails(t, c.operand1, types) THEN Panic
        ELSE t

\* a shift typed as the binary operations with matching operands are
binop_left_type_checked(c, types) ==
    LET t == get_type(c.operand0, types)
    IN  IF t = Panic THEN Panic
        ELSE IF get_type(c.operand1, types) # t THEN Panic
        ELSE t

\* binop_left_type!
binop_left_type(c, types) == get_type(c.operand0, types)

\* a ShuffleVector that keeps the length of its operands
ShuffleVectorGetTypeOperandLength(c, types) ==
    LET ty == get_type(c.operand0, types)
    IN  IF ty = Panic THEN Panic
        ELSE IF DebugAssertEqFails(ty, c.operand1, types) THEN Panic
        ELSE IF ty.kind = "VectorType"
             THEN LET m == get_type(c.mask, types)
                  IN  IF m # Panic /\ m.kind = "VectorType" THEN ty ELSE Panic
             ELSE Panic

\* ShuffleVector::get_type
ShuffleVectorGetType(c, types) ==
    LET ty == get_type(c.operand0, types)
    IN  IF ty = Panic THEN Panic
        ELSE IF DebugAssertEqFails(ty, c.operand1, types) THEN Panic
        ELSE IF ty.kind = "VectorType"
             THEN LET m == get_type(c.mask, types)
                  IN  IF m # Panic /\ m.kind = "VectorType"
                      THEN VectorType(ty.element_type, m.num_elements)
                      ELSE Panic
             ELSE Panic

\* types.bool()
bool == IntegerType(1)

\* a comparison that is a single boolean also on vectors
CmpGetTypeScalar(c, types) ==
    LET ty == get_type(c.operand0, types)
    IN  IF ty = Panic THEN Panic
        ELSE IF DebugAssertEqFails(ty, c.operand1, types) THEN Panic
        ELSE bool

\* ICmp::get_type and FCmp::get_type
CmpGetType(c, types) ==
    LET ty == get_type(c.operand0, types)
    IN  IF ty = Panic THEN Panic
        ELSE IF DebugAssertEqFails(ty, c.operand1, types) THEN Panic
        ELSE IF ty.kind = "VectorType" THEN VectorType(bool, ty.num_elements)
        ELSE bool

\* Select::get_type
SelectGetType(c, types) ==
    LET t == get_type(c.true_value, types)
    IN  IF t = Panic THEN Panic
        ELSE IF DebugAssertEqFails(t, c.false_value, types) THEN Panic
        ELSE t

\* an ExtractValue that insists on an aggregate of array or struct type
ExtractValueGetTypeChecked(c, types) ==
    LET t == get_type(c.aggregate, types)
    IN  IF t = Panic \/ t.kind \notin {"ArrayType", "StructType"} THEN Panic
        ELSE ev_type(t, c.indices)

\* an ExtractValue that resolves a named struct through the table, as a
\* GetElementPtr does
ExtractValueGetTypeThroughTable(c, types) ==
    LET t == get_type(c.aggregate, types)
    IN  IF t = Panic THEN Panic
        ELSE IF t.kind = "NamedStructType" /\ c.indices # <<>>
        THEN LET field == GepNamedStructStep(t.name, ConstInt(32, Head(c.indices)), types)
             IN  IF field = Panic THEN Panic ELSE ev_type(field, Tail(c.indices))
        ELSE ev_type(t, c.indices)

\* ExtractValue::get_type
ExtractValueGetType(c, types) ==
    LET t == get_type(c.aggregate, types)
    IN  IF t = Panic THEN Panic ELSE ev_type(t, c.indices)

\* an InsertValue typed by walking to the place of the element
InsertValueGetTypeWalk(c, types) ==
    LET t == get_type(c.aggregate, types)
    IN  IF t = Panic THEN Panic ELSE ev_type(t, c.indices)

\* InsertValue::get_type
InsertValueGetType(c, types) == get_type(c.aggregate, types)

\* GetElementPtr::get_type
GetElementPtrGetType(c, types) ==
    LET t == get_type(c.address, types)
    IN  IF t = Panic THEN Panic ELSE gep_type(t, c.indices, types)

\* Constant::Struct: types.struct_of(the types of the values, is_packed)
StructGetType(c, types) ==
    LET ts == [i \in 1..Len(c.values) |-> get_type(c.values[i], types)]
    IN  IF \E i \in 1..Len(ts) : ts[i] = Panic THEN Panic
        ELSE StructType(ts, c.is_packed)

\* Constant::get_type
get_type(c, types) ==
    CASE c.kind = "Int" -> IntegerType(c.bits)
      [] c.kind = "Struct" -> StructGetType(c, types)
      [] c.kind = "Null" -> c.ty
      [] c.kind = "AggregateZero" -> c.ty
      [] c.kind = "Undef" -> c.ty
      [] c.kind = "ExtractValue" -> ExtractValueGetType(c, types)
      [] c.kind = "InsertValue" -> InsertValueGetType(c, types)
      [] c.kind = "GetElementPtr" -> GetElementPtrGetType(c, types)
      [] c.kind \in SameTypeOps -> binop_same_type(c, types)
      [] c.kind \in LeftTypeOps -> binop_left_type(c, types)
      [] c.kind = "ShuffleVector" -> ShuffleVectorGetType(c, types)
      [] c.kind \in {"ICmp", "FCmp"} -> CmpGetType(c, types)
      [] c.kind = "Select" -> SelectGetType(c, types)

(***************************************************************************)
(* The constants get_type is asked about                                   *)
(***************************************************************************)
i8 == IntegerType(8)
i32 == IntegerType(32)
i64 == IntegerType(64)
Array10 == ArrayType(i32, 10)
SmallArray == ArrayType(i8, 2)
PlainStruct == StructType(<<i32, i8>>, FALSE)
NestedStruct == StructType(<<Array10, pointer_to(PlainStruct)>>, TRUE)

\* the named struct definitions of the module under inspection
\* "struct.Scalar" is an entry whose definition is no struct type: the
\* table's entries hold a Type of any kind, and gep_type has an arm for it
TheTypes ==
    [n \in {"struct.List", "struct.Opaque", "struct.Scalar", "struct.Packed"} |->
        CASE n = "struct.List" ->
                Defined(StructType(<<i32, pointer_to(NamedStructType("struct.List"))>>, FALSE))
          [] n = "struct.Packed" -> Defined(StructType(<<i8, i32>>, TRUE))
          [] n = "struct.Scalar" -> Defined(i32)
          [] OTHER -> Opaque]

ScalarTypes == {i32, i8}
AggregateTypes ==
    {Array10, VectorType(i32, 4), PlainStruct, NestedStruct,
     NamedStructType("struct.List"), NamedStructType("struct.Opaque"),
     NamedStructType("struct.Scalar"), NamedStructType("struct.Missing")}

SeqsUpTo(S, n) == UNION {[1..k -> S] : k \in 0..n}

\* GEP indices: literals, and constants of other kinds
IndexConstants ==
    {ConstInt(64, k) : k \in 0..MaxIndexValue}
        \cup {Undef(i64), Add(ConstInt(64, 0), ConstInt(64, 1))}

AddressTypes ==
    {pointer_to(t) : t \in ScalarTypes \cup AggregateTypes}
        \cup {VectorType(pointer_to(i32), 2)}

GepExprs ==
    {GetElementPtr(Null(a), idx) :
        a \in AddressTypes, idx \in SeqsUpTo(IndexConstants, MaxIndices)}

AggregateConstants ==
    {Undef(t) : t \in ScalarTypes \cup AggregateTypes}
        \cup {AggregateZero(Array10), Undef(SmallArray)}

ElementConstants == {ConstInt(32, 5), Undef(i8), Undef(Array10)}

InsertValueExprs ==
    {InsertValue(agg, el, idx) :
        agg \in AggregateConstants, el \in ElementConstants,
        idx \in SeqsUpTo(0..MaxIndexValue, MaxIndices - 1)}

ExtractValueExprs ==
    {ExtractValue(agg, idx) :
        agg \in AggregateConstants, idx \in SeqsUpTo(0..MaxIndexValue, MaxIndices - 1)}

\* operands of the binary operations, comparisons, selects and shuffles
Double == FPType("Double")
OperandConstants ==
    {ConstInt(32, 5), Undef(i8), Undef(Double), Undef(VectorType(i32, 4)),
     Undef(VectorType(i32, 2)), Undef(VectorType(i8, 2))}

BinOpExprs ==
    {BinOp(op, a, b) :
        op \in SameTypeOps \cup LeftTypeOps, a \in OperandConstants, b \in OperandConstants}

ShuffleVectorExprs ==
    {ShuffleVector(a, b, mask) :
        a \in OperandConstants, b \in OperandConstants, mask \in OperandConstants}

CmpExprs ==
    {ICmp(a, b) : a \in OperandConstants, b \in OperandConstants}
        \cup {FCmp(a, b) : a \in OperandConstants, b \in OperandConstants}

SelectExprs ==
    {Select(ConstInt(1, 1), t, f) : t \in OperandConstants, f \in OperandConstants}

NotComputed == [kind |-> "none"]

GtIdle ==
    /\ debug_assertions = FALSE
    /\ expr = NotComputed
    /\ result = NotComputed

GtInit ==
    /\ debug_assertions \in BOOLEAN
    /\ expr \in GepExprs \cup InsertValueExprs \cup ExtractValueExprs
                \cup BinOpExprs \cup ShuffleVectorExprs \cup CmpExprs \cup SelectExprs
    /\ result = NotComputed

\* types.type_of(&constant)
GetType ==
    /\ expr # NotComputed
    /\ result = NotComputed
    /\ result' = get_type(expr, TheTypes)
    /\ UNCHANGED <<debug_assertions, expr>>
    /\ UNCHANGED nonGtVars

(***************************************************************************)
(* Constant::parse_from_llvm_ref on integer, null-pointer and struct       *)
(* constants. A u64 is the function from its 64 bit positions to 0 and 1,  *)
(* position 0 the least significant one.                                   *)
(***************************************************************************)
\* the width of Constant::Int's value field (value: u64)
FieldBits == 64

\* the foreign integer of `width` bits with the bits `bit`
APInt(width, bit) == [width |-> width, bit |-> bit]

\* the bit patterns the foreign integers are drawn from: 0, 1, -1, and the
\* least value of the width
Patterns == {"zero", "one", "minus_one", "min"}
PatternBits(width, p) ==
    [i \in 0..(width - 1) |->
        CASE p = "zero" -> 0
          [] p = "one" -> IF i = 0 THEN 1 ELSE 0
          [] p = "minus_one" -> 1
          [] OTHER -> IF i = width - 1 THEN 1 ELSE 0]

ForeignInt(ty, p) ==
    [kind |-> "ConstantInt", ty |-> ty, ap |-> APInt(ty.bits, PatternBits(ty.bits, p))]
ForeignNull(ty) == [kind |-> "ConstantPointerNull", ty |-> ty]
ForeignStruct(ty, operands) == [kind |-> "ConstantStruct", ty |-> ty, operands |-> operands]

\* the value sign-extended to 64 bits
LLVMConstIntGetSExtValue(c) ==
    [i \in 0..(FieldBits - 1) |->
        IF i < c.ap.width THEN c.ap.bit[i] ELSE c.ap.bit[c.ap.width - 1]]

\* LLVMConstIntGetZExtValue(constant) as u64: the value zero-extended to 64 bits
LLVMConstIntGetZExtValue(c) ==
    [i \in 0..(FieldBits - 1) |-> IF i < c.ap.width THEN c.ap.bit[i] ELSE 0]

\* the LLVMConstantIntValueKind arm
ParseConstantInt(c) ==
    IF c.ty.kind = "IntegerType"
    THEN ConstInt(c.ty.bits, LLVMConstIntGetZExtValue(c))
    ELSE Panic

\* a struct constant that takes its packed flag to be false
StructShapeUnpacked(ty, types) ==
    CASE ty.kind = "StructType" -> <<Len(ty.element_types), FALSE>>
      [] ty.kind = "NamedStructType" ->
            LET def == named_struct_def(types, ty.name)
            IN  IF def = Opaque THEN Panic
                ELSE IF def.ty.kind = "StructType"
                THEN <<Len(def.ty.element_types), FALSE>>
                ELSE Panic
      [] OTHER -> Panic

\* the LLVMConstantStructValueKind arm, first half: (num_elements, is_packed)
\* from the declared type, through the table for a named struct
StructShape(ty, types) ==
    CASE ty.kind = "StructType" -> <<Len(ty.element_types), ty.is_packed>>
      [] ty.kind = "NamedStructType" ->
            LET def == named_struct_def(types, ty.name)
            IN  IF def = Opaque THEN Panic
                ELSE IF def.ty.kind = "StructType"
                THEN <<Len(def.ty.element_types), def.ty.is_packed>>
                ELSE Panic
      [] OTHER -> Panic

RECURSIVE parse_constant(_, _)

\* the LLVMConstantStructValueKind arm, second half: one value per element,
\* each decoded from the operand at its position
ParseConstantStruct(c, types) ==
    LET shape == StructShape(c.ty, types)
    IN  IF shape = Panic THEN Panic
        ELSE LET values == [i \in 1..shape[1] |-> parse_constant(c.operands[i], types)]
             IN  IF \E i \in 1..shape[1] : values[i] = Panic THEN Panic
                 ELSE ConstantStruct(values, shape[2])

\* parse_from_llvm_ref on a foreign constant given by value
parse_constant(c, types) ==
    CASE c.kind = "ConstantInt" -> ParseConstantInt(c)
      [] c.kind = "ConstantStruct" -> ParseConstantStruct(c, types)
      [] c.kind = "ConstantPointerNull" -> Null(c.ty)
      [] OTHER -> Panic

\* the widths of the foreign integers
IntWidths == 1..FieldBits

ForeignInts == {ForeignInt(IntegerType(w), p) : w \in IntWidths, p \in Patterns}

\* the declared types of the foreign struct constants
DeclaredStructTypes ==
    {PlainStruct, StructType(<<i8, i32>>, TRUE), StructType(<<>>, FALSE),
     NamedStructType("struct.List"), NamedStructType("struct.Packed"),
     NamedStructType("struct.Opaque")}

\* the element types of the declared type ty: LLVM gives a struct constant
\* one operand per element, of the element's type
ElementTypesOf(ty, types) ==
    IF ty.kind = "StructType" THEN ty.element_types
    ELSE IF named_struct_def(types, ty.name) = Opaque THEN <<>>
    ELSE named_struct_def(types, ty.name).ty.element_types

\* the foreign constants of type t
ForeignOfType(t) ==
    IF t.kind = "IntegerType" THEN {ForeignInt(t, p) : p \in Patterns}
    ELSE {ForeignNull(t)}

ForeignStructs ==
    UNION {LET ets == ElementTypesOf(ty, TheTypes)
           IN  {ForeignStruct(ty, ops) :
                    ops \in {o \in [1..Len(ets) -> UNION {ForeignOfType(ets[i]) : i \in 1..Len(ets)}] :
                                \A i \in 1..Len(ets) : o[i] \in ForeignOfType(ets[i])}}
           : ty \in DeclaredStructTypes}

NotDecoded == [kind |-> "none"]

DecIdle ==
    /\ fvalue = NotDecoded
    /\ decoded = NotDecoded
    /\ decoded_ty = NotComputed

DecInit ==
    /\ fvalue \in ForeignInts \cup ForeignStructs
    /\ decoded = NotDecoded
    /\ decoded_ty = NotComputed

\* Constant::parse_from_llvm_ref(constant, ctx)
Decode ==
    /\ fvalue # NotDecoded
    /\ decoded = NotDecoded
    /\ decoded' = parse_constant(fvalue, TheTypes)
    /\ UNCHANGED <<fvalue, decoded_ty>>
    /\ UNCHANGED nonDecVars

\* types.type_of(&constant) on the decoded Constant
TypeOfDecoded ==
    /\ decoded \notin {NotDecoded, Panic}
    /\ decoded_ty = NotComputed
    /\ decoded_ty' = get_type(decoded, TheTypes)
    /\ UNCHANGED <<fvalue, decoded>>
    /\ UNCHANGED nonDecVars

(***************************************************************************)
(* Type::from_llvm_ref on named struct types, and the named struct table   *)
(***************************************************************************)
StructNames == {"struct.Node" \o ToString(i) : i \in 1..NumStructs}

\* An element of a foreign struct body: an i32, or a pointer to a named struct.
ElementKinds == {"i32"} \cup StructNames

ForeignBodies ==
    {[opaque |-> TRUE, body |-> <<>>]}
        \cup {[opaque |-> FALSE, body |-> <<"i32", m>>] : m \in StructNames}
        \cup {[opaque |-> FALSE, body |-> <<m, n>>] : m \in StructNames, n \in StructNames}

\* Type::NamedStructType { name, ty }: ty is the weak handle to the shared
\* body, NoCell for None
NoCell == 0
NamedStructRef(name, ty) == [kind |-> "NamedStructType", name |-> name, ty |-> ty]

\* the content of a shared body that has not been filled in yet
Placeholder == [kind |-> "placeholder"]

\* the recursion depth the model follows a translation to
MaxDepth == NumStructs + 1

\* an equality that compares the weak handles as well
TypeEqDerived(a, b) == a = b

RECURSIVE TypeEq(_, _)
\* PartialEq for Type: structural, named struct references by name alone
TypeEq(a, b) ==
    IF a.kind # b.kind THEN FALSE
    ELSE CASE a.kind = "NamedStructType" -> a.name = b.name
           [] a.kind = "PointerType" ->
                a.addr_space = b.addr_space /\ TypeEq(a.pointee_type, b.pointee_type)
           [] a.kind \in {"ArrayType", "VectorType"} ->
                a.num_elements = b.num_elements /\ TypeEq(a.element_type, b.element_type)
           [] a.kind = "StructType" ->
                /\ a.is_packed = b.is_packed
                /\ Len(a.element_types) = Len(b.element_types)
                /\ \A i \in 1..Len(a.element_types) :
                        TypeEq(a.element_types[i], b.element_types[i])
           [] OTHER -> a = b

Absent == [cell |-> -1]
OpaqueEntry == [cell |-> NoCell]

\* a lookup that never finds the name
LookupNamedNever(table, name) == Absent

\* tynamemap.get(&name)
LookupNamed(table, name) == IF name \in DOMAIN table THEN table[name] ELSE Absent

\* a weak handle that is None while the body is still the placeholder
WeakOfSnapshot(entry, heap) ==
    IF entry.cell # NoCell /\ heap[entry.cell] = Placeholder THEN NoCell ELSE entry.cell

\* the weak handle a reference takes from the entry of its name
WeakOf(entry, heap) == entry.cell

\* a pre-registration that allocates the body but leaves the table alone
PreregisterSkip(table, heap, name) == <<table, Append(heap, Placeholder)>>

\* the placeholder entered under the name before the body is translated:
\* <<the table, the bodies>> afterwards
Preregister(table, heap, name) ==
    <<table @@ (name :> [cell |-> Len(heap) + 1]), Append(heap, Placeholder)>>

\* the entry of a finished body: <<the table, the bodies>> afterwards
Define(table, heap, name, cell, body) ==
    <<[n \in DOMAIN table \cup {name} |-> IF n = name THEN [cell |-> cell] ELSE table[n]],
      [heap EXCEPT ![cell] = body]>>

\* a struct without a body that is given no entry
RegisterOpaqueSkip(table, name) == table

\* a struct declared without a body is entered as opaque
RegisterOpaque(table, name) == table @@ (name :> OpaqueEntry)

TyIdle ==
    /\ ftypes = <<>>
    /\ tynamemap = <<>>
    /\ cells = <<>>
    /\ tstack = <<>>
    /\ produced = {}
    /\ tcalls = 0

TyInit ==
    /\ ftypes \in [StructNames -> ForeignBodies]
    /\ tynamemap = <<>>
    /\ cells = <<>>
    /\ tstack = <<>>
    /\ produced = {}
    /\ tcalls = 0

\* the translation of a named struct returns t: to the body being built
\* below it, as the pointee of an element, or to the caller
ReturnType(stack, t) ==
    IF stack = <<>>
    THEN /\ tstack' = stack
         /\ produced' = produced \cup {t}
    ELSE /\ tstack' = [stack EXCEPT ![Len(stack)].done = Append(@, pointer_to(t))]
         /\ UNCHANGED produced

\* Type::from_llvm_ref on the named struct `name`, with the bodies being
\* built in `stack` below it
EnterNamedStruct(name, stack) ==
    LET entry == LookupNamed(tynamemap, name)
    IN  IF entry # Absent
        THEN \* the name is in the table already
             /\ ReturnType(stack, NamedStructRef(name, WeakOf(entry, cells)))
             /\ UNCHANGED <<tynamemap, cells>>
        ELSE IF ftypes[name].opaque
        THEN /\ tynamemap' = RegisterOpaque(tynamemap, name)
             /\ ReturnType(stack, NamedStructRef(name, NoCell))
             /\ UNCHANGED cells
        ELSE LET pre == Preregister(tynamemap, cells, name)
             IN  /\ tynamemap' = pre[1]
                 /\ cells' = pre[2]
                 /\ tstack' = Append(stack,
                        [name |-> name, cell |-> Len(pre[2]), done |-> <<>>])
                 /\ UNCHANGED produced

\* the module translation asks for the type of a parameter or an instruction
TypeCall ==
    /\ tstack = <<>>
    /\ tcalls < MaxTypeCalls
    /\ \E name \in StructNames : EnterNamedStruct(name, tstack)
    /\ tcalls' = tcalls + 1
    /\ UNCHANGED ftypes
    /\ UNCHANGED nonTyVars

\* the next element of the body on top of the stack
TranslateElement ==
    /\ tstack # <<>>
    /\ Len(tstack) < MaxDepth
    /\ LET top == tstack[Len(tstack)]
           body == ftypes[top.name].body
       IN  /\ Len(top.done) < Len(body)
           /\ LET e == body[Len(top.done) + 1]
              IN  IF e = "i32"
                  THEN /\ tstack' = [tstack EXCEPT ![Len(tstack)].done =
                                          Append(@, IntegerType(32))]
                       /\ UNCHANGED <<tynamemap, cells, produced>>
                  ELSE EnterNamedStruct(e, tstack)
    /\ UNCHANGED <<ftypes, tcalls>>
    /\ UNCHANGED nonTyVars

\* the body on top of the stack is complete: the entry becomes defined
FinishStruct ==
    /\ tstack # <<>>
    /\ LET top == tstack[Len(tstack)]
           rest == SubSeq(tstack, 1, Len(tstack) - 1)
           def == Define(tynamemap, cells, top.name, top.cell,
                         StructType(top.done, FALSE))
       IN  /\ Len(top.done) = Len(ftypes[top.name].body)
           /\ tynamemap' = def[1]
           /\ cells' = def[2]
           /\ ReturnType(rest, NamedStructRef(top.name, top.cell))
    /\ UNCHANGED <<ftypes, tcalls>>
    /\ UNCHANGED nonTyVars

vars == <<buildVars, constVars, gtVars, tyVars, decVars>>

Init == BuildInit /\ ConstIdle /\ GtIdle /\ TyIdle /\ DecIdle

Next ==
    \/ CreateMemoryBuffer
    \/ ParseBitcode
    \/ Pass1Step
    \/ ResetCtr
    \/ TranslateFunction
    \/ FunctionsDone
    \/ TranslateGlobalVar
    \/ GlobalsDone
    \/ TranslateAlias
    \/ Finish
    \/ GetFuncByName

Spec == Init /\ [][Next]_vars

ConstNext ==
    \/ CallFromLlvmRef
    \/ DecodeOperand
    \/ InsertParsed

InitConst == ConstInit /\ BuildIdle /\ GtIdle /\ TyIdle /\ DecIdle

GtNext == GetType

InitGetType == GtInit /\ BuildIdle /\ ConstIdle /\ TyIdle /\ DecIdle

SpecGetType == InitGetType /\ [][GtNext]_vars

TyStep ==
    \/ TranslateElement
    \/ FinishStruct

TyNext ==
    \/ TypeCall
    \/ TyStep

InitTypes == TyInit /\ BuildIdle /\ ConstIdle /\ GtIdle /\ DecIdle

SpecTypes == InitTypes /\ [][TyNext]_vars

\* a translation that has started runs to its end: the code is sequential
SpecTypesFair == SpecTypes /\ WF_vars(TyStep)

SpecConst == InitConst /\ [][ConstNext]_vars

\* the steps inside one call of from_llvm_ref
ConstStep ==
    \/ DecodeOperand
    \/ InsertParsed

\* a call of from_llvm_ref that has started runs on: the code is sequential
SpecConstFair == SpecConst /\ WF_vars(ConstStep)

DecNext ==
    \/ Decode
    \/ TypeOfDecoded

InitDecode == DecInit /\ BuildIdle /\ ConstIdle /\ GtIdle /\ TyIdle

SpecDecode == InitDecode /\ [][DecNext]_vars

(***************************************************************************)
(* Module construction: properties                                         *)
(***************************************************************************)
\* the records pass 2 has produced for global variables and aliases
Pass2Records == 
    {global_vars[i] : i \in 1..Len(global_vars)}
        \cup {global_aliases[i] : i \in 1..Len(global_aliases)}

\* the GlobalReference constants held by the records of pass 2
Pass2References ==
    {global_vars[i].initializer : i \in 1..Len(global_vars)}
        \cup {global_aliases[i].aliasee : i \in 1..Len(global_aliases)}

\* C1: name-resolution parity. The Name pass 2 computes for a global variable
\* or alias is the Name the pass-1 map holds for the same handle, and so a
\* GlobalReference to such an object carries the Name of the object's record.
C1_NameParity ==
    /\ \A r \in Pass2Records : r.name = GnmapGet(gnmap, r.handle)
    /\ \A c \in Pass2References : \A r \in Pass2Records :
            (c.kind = "GlobalReference" /\ c.target = r.handle) => c.name = r.name

\* every global object of the module
AllHandles ==
    {Handle(cat, i) : cat \in {"defined"}, i \in 1..Len(fm.defined)}
        \cup {Handle(cat, i) : cat \in {"declared"}, i \in 1..Len(fm.declared)}
        \cup {Handle(cat, i) : cat \in {"globals"}, i \in 1..Len(fm.globals)}
        \cup {Handle(cat, i) : cat \in {"aliases"}, i \in 1..Len(fm.aliases)}

\* the place of a category in the order defined functions, declared
\* functions, global variables, global aliases
CatRank(cat) ==
    CASE cat = "defined" -> 1
      [] cat = "declared" -> 2
      [] cat = "globals" -> 3
      [] cat = "aliases" -> 4

VisitedBefore(g, h) ==
    \/ CatRank(g.cat) < CatRank(h.cat)
    \/ g.cat = h.cat /\ g.idx < h.idx

IsUnnamed(h) == ~fm[h.cat][h.idx]

\* C13: pass 1 visits defined functions, declared functions, global
\* variables and aliases in that order with one counter from 0; a named
\* object gets its name and takes no number, an unnamed object gets the
\* number of unnamed objects visited before it, so the numbers are 0, 1, 2, ...
\* in visiting order and no two unnamed objects share one.
C13_Pass1Naming ==
    /\ \A p \in gnmap :
            LET h == p[1]
            IN  /\ \A g \in AllHandles : VisitedBefore(g, h) => GnmapHas(gnmap, g)
                /\ IF IsUnnamed(h)
                   THEN p[2] = NameNumber(Cardinality(
                            {g \in AllHandles : IsUnnamed(g) /\ VisitedBefore(g, h)}))
                   ELSE p[2].kind = "Name" /\ p[2].name = get_value_name(fm, h)
    /\ \A p \in gnmap : \A q \in gnmap :
            (p[2].kind = "Number" /\ p[2] = q[2]) => p[1] = q[1]
    /\ pc = "pass1" =>
            global_ctr = Cardinality({p \in gnmap : p[2].kind = "Number"})

\* pass 1 is over; an unnamed function got 0, a named declaration no number,
\* an unnamed global variable 1
C13_Witness ==
    /\ pc \in {"functions", "globals", "aliases", "done", "panic"}
    /\ \E f \in AllHandles : \E d \in AllHandles : \E g \in AllHandles :
          /\ f.cat = "defined" /\ IsUnnamed(f) /\ GnmapGet(gnmap, f) = NameNumber(0)
          /\ d.cat = "declared" /\ ~IsUnnamed(d) /\ GnmapGet(gnmap, d).kind = "Name"
          /\ g.cat = "globals" /\ IsUnnamed(g) /\ GnmapGet(gnmap, g) = NameNumber(1)

\* the detailed translation has begun
InPass2 == pc \in {"functions", "globals", "aliases", "done", "panic"}

\* C14: pass ordering. Once the detailed translation has begun the name map
\* holds every global object of the module, and the second pass assigns no
\* Name of its own: it never takes a number from the counter.
C14_PassOrdering ==
    InPass2 =>
        /\ \A h \in AllHandles : GnmapHas(gnmap, h)
        /\ global_ctr = ResetValue

\* C15: every GlobalReference decoded carries the Name the pass-1 map holds
\* for the handle it refers to, also for an object visited later than the
\* referrer and for references in a cycle; a referrer whose target is not
\* in the map gets no record: the decoding aborts.
C15_GlobalReferenceResolution ==
    /\ \A c \in Pass2References :
            c.kind = "GlobalReference" =>
                /\ GnmapHas(gnmap, c.target)
                /\ c.name = GnmapGet(gnmap, c.target)
    /\ refMode = "ifunc" =>
            /\ Pass2Records = {}
            /\ pc = "done" => Len(fm.globals) + Len(fm.aliases) = 0

\* a global variable refers to the alias visited after it, the alias back to
\* the variable, both unnamed
C15_Witness ==
    /\ pc = "done"
    /\ Len(global_vars) = 1 /\ Len(global_aliases) = 1
    /\ global_vars[1].initializer.kind = "GlobalReference"
    /\ global_vars[1].initializer.target = global_aliases[1].handle
    /\ global_aliases[1].aliasee.target = global_vars[1].handle
    /\ global_vars[1].initializer.name.kind = "Number"
    /\ global_aliases[1].aliasee.name.kind = "Number"

\* a reference to a global value that pass 1 did not visit has aborted the build
C15_WitnessAbort ==
    /\ refMode = "ifunc"
    /\ pc = "panic"
    /\ badIdx = 0

\* Module::from_llvm_ref has not been entered
NeverInvoked ==
    /\ pc \in {"from_bc_path", "parse", "err"}
    /\ gnmap = {}
    /\ functions = <<>> /\ global_vars = <<>> /\ global_aliases = <<>>

ReaderFailed == create_rc # 0 \/ parse_rc # 0

C16_WitnessCreate ==
    /\ create_rc # 0
    /\ bc_result = Err("err_string")
    /\ NeverInvoked

\* both steps succeeded and a module with global objects was built
C16_WitnessOk ==
    /\ bc_result = Ok
    /\ global_vars # <<>> /\ global_aliases # <<>> /\ functions # <<>>

\* the global variable or alias at place i (variables first) breaks an
\* invariant of the build: its type is no pointer, or its initializer or
\* aliasee is a global value missing from the name map, a constant of an
\* opaque struct type, or of an opcode or value kind the decoder does not know
FaultyObject(i) ==
    \/ i = badIdx
    \/ refMode \in {"ifunc", "opaque_struct", "bad_opcode", "bad_kind"}

NumRecords == Len(global_vars) + Len(global_aliases)

NumObjects == Len(fm.globals) + Len(fm.aliases)

\* C17: no partial module. The build ends at the first object that breaks an
\* invariant: every object before it has its record, it and the objects after
\* it have none, nothing happens afterwards, and nothing is returned; a
\* Module is returned only when no object breaks an invariant.
C17_NoPartialModule ==
    /\ [](\A i \in 1..NumRecords : ~FaultyObject(i))
    /\ [](pc = "panic" => (FaultyObject(NumRecords + 1) /\ bc_result = NoResult))
    /\ []((pc = "done" \/ bc_result = Ok) => \A i \in 1..NumObjects : ~FaultyObject(i))
    /\ [][pc # "panic"]_vars

\* the global variable is translated, the alias after it has a non-pointer
\* type: the build has ended with one record and no Module
C17_Witness ==
    /\ pc = "panic"
    /\ badIdx = 2
    /\ Len(global_vars) = 1 /\ global_aliases = <<>>
    /\ bc_result = NoResult

\* the build has ended at a constant of opaque struct type
C17_WitnessOpaque ==
    /\ pc = "panic"
    /\ refMode = "opaque_struct"
    /\ badIdx = 0
    /\ NumRecords = 0

\* the defined functions of the foreign module whose name is n
DefinedNamed(n) ==
    {i \in 1..Len(fm.defined) : get_value_name(fm, Handle("defined", i)) = n}

\* C23: get_func_by_name(n) returns the first element of module.functions
\* whose name is n, and None exactly when no element has that name. The
\* sequence holds the defined functions only, so the name of a function
\* that is only declared yields None, although pass 1 gave the declaration
\* a Name and the GlobalReferences to it are resolved.
C23_GetFuncByName ==
    lookup.queried =>
        LET n == lookup.name
        IN  /\ lookup.result = None <=> (\A i \in 1..Len(functions) : functions[i].name # n)
            /\ lookup.result # None =>
                    \E i \in 1..Len(functions) :
                        /\ lookup.result = functions[i]
                        /\ functions[i].name = n
                        /\ \A j \in 1..(i - 1) : functions[j].name # n
            /\ Len(functions) = Len(fm.defined)
            /\ \A i \in 1..Len(functions) : functions[i].handle = Handle("defined", i)
            /\ \A k \in 1..Len(fm.declared) :
                    LET h == Handle("declared", k)
                    IN  (get_value_name(fm, h) = n /\ DefinedNamed(n) = {})
                        => /\ lookup.result = None
                           /\ GnmapHas(gnmap, h)
                           /\ \A c \in Pass2References :
                                 (c.kind = "GlobalReference" /\ c.target = h)
                                     => c.name = GnmapGet(gnmap, h)

\* the name of a declaration is asked for: None, although a global variable
\* holds a resolved reference to that declaration
C23_Witness ==
    /\ lookup.queried
    /\ Len(fm.declared) = 1
    /\ lookup.name = get_value_name(fm, Handle("declared", 1))
    /\ lookup.name # ""
    /\ lookup.result = None
    /\ Len(fm.defined) > 0
    /\ \E c \in Pass2References :
            /\ c.kind = "GlobalReference"
            /\ c.target = Handle("declared", 1)
            /\ c.name = NameName(lookup.name)

\* two defined functions have the same (empty) name: the first is returned
C23_WitnessFirst ==
    /\ lookup.queried
    /\ Len(functions) = 2
    /\ functions[1].name = functions[2].name
    /\ lookup.name = functions[1].name
    /\ lookup.result = functions[1]
    /\ lookup.result # functions[2]

\* from_bc_path has returned, or the translation it called has aborted
Returned == pc \in {"err", "done", "panic"}

\* C28: in from_bc_path a memory buffer that was created is disposed of
\* exactly once before the return, when the parse fails as when it succeeds,
\* and always before the module is translated; when the creation fails no
\* buffer is disposed of.
C28_BufferDisposedOnce ==
    /\ disposals <= 1
    /\ memory_buffer = "disposed" <=> disposals = 1
    /\ memory_buffer = "live" => pc = "parse"
    /\ create_rc # 0 => (disposals = 0 /\ memory_buffer = "null")
    /\ (Returned /\ create_rc = 0) => disposals = 1
    /\ pc \in {"pass1", "functions", "globals", "aliases", "done", "panic"} => disposals = 1

\* the buffer was created, the parse failed, and the buffer is disposed of
C28_Witness ==
    /\ pc = "err"
    /\ create_rc = 0 /\ parse_rc # 0
    /\ memory_buffer = "disposed"
    /\ disposals = 1

\* the parse succeeded: the buffer is disposed of while pass 1 has not begun
C28_WitnessBeforeTranslation ==
    /\ pc = "pass1"
    /\ gnmap = {}
    /\ disposals = 1

\* the creation failed: nothing to dispose of
C28_WitnessCreate ==
    /\ pc = "err"
    /\ create_rc # 0
    /\ disposals = 0

\* C29: every GlobalVariable and GlobalAlias of a Module has a pointer type
\* as ty, the foreign type of the object, and as addr_space the address
\* space of that pointer type; an object whose type is no pointer type gets
\* no record: the build aborts at it and returns no Module.
C29_GlobalPointerTypes ==
    /\ \A r \in Pass2Records :
            /\ r.ty.kind = "PointerType"
            /\ r.ty = TypeOfGlobal(fm, badIdx, r.handle)
            /\ r.addr_space = r.ty.addr_space
    /\ (badIdx # 0 /\ InPass2) =>
            /\ pc # "done"
            /\ bc_result # Ok
            /\ \A r \in Pass2Records : ObjIndex(fm, r.handle) < badIdx
            /\ pc = "panic" => NumRecords < badIdx

\* a Module whose global variable lives in address space 1 and whose alias
\* lives in address space 0
C29_Witness ==
    /\ pc = "done"
    /\ Len(global_vars) = 1 /\ Len(global_aliases) = 1
    /\ global_vars[1].ty = PointerTypeIn(IntegerType(32), 1)
    /\ global_vars[1].addr_space = 1
    /\ global_aliases[1].ty = PointerTypeIn(IntegerType(32), 0)
    /\ global_aliases[1].addr_space = 0

\* the alias has a type that is no pointer type: the build aborted at it,
\* after the global variable
C29_WitnessAbort ==
    /\ pc = "panic"
    /\ refMode = "none"
    /\ badIdx = 2
    /\ Len(global_vars) = 1 /\ global_aliases = <<>>
    /\ TypeOfGlobal(fm, badIdx, Handle("aliases", 1)).kind = "IntegerType"

(***************************************************************************)
(* Constant decoding: properties                                           *)
(***************************************************************************)
\* C2: constant memoization. All calls of from_llvm_ref with one foreign
\* handle return the same allocation, and the handle is parsed at most once.
C2_Memoized ==
    /\ \A p \in returned : \A q \in returned : p[1] = q[1] => p[2] = q[2]
    /\ \A h \in DOMAIN parses : parses[h] <= 1

\* a handle returned twice, reached as an operand of two different parents
C2_Witness ==
    \E h \in DOMAIN constants :
        /\ nreturns[h] >= 2
        /\ \E a \in 1..Len(arena) : \E b \in 1..Len(arena) :
              /\ a # b
              /\ \E i \in 1..Len(arena[a].operands) : arena[a].operands[i] = constants[h]
              /\ \E i \in 1..Len(arena[b].operands) : arena[b].operands[i] = constants[h]

RECURSIVE ReachableOperands(_)
\* the foreign constants reachable from h through operand lists
ReachableOperands(h) ==
    UNION {{fconsts[h][i]} \cup ReachableOperands(fconsts[h][i]) : i \in 1..Len(fconsts[h])}

\* C26: on an acyclic graph of foreign constants, whenever from_llvm_ref
\* inserts a handle into the cache, every handle reachable from it through
\* operands is cached already and the handle itself is not, so the fault
\* "This case should have been handled above" never happens; the cache only
\* grows, no entry is replaced or removed; and every decoding terminates.
C26_CacheDiscipline ==
    /\ [][constants' # constants =>
            \E h \in ConstHandles \ DOMAIN constants :
                /\ DOMAIN constants' = DOMAIN constants \cup {h}
                /\ \A k \in DOMAIN constants : constants'[k] = constants[k]
                /\ ReachableOperands(h) \subseteq DOMAIN constants]_vars
    /\ [](cstatus # "panic")
    /\ (cstack # <<>>) ~> (cstack = <<>>)

\* a constant with two operands, one of them an operand of the other, is
\* decoded and cached together with everything it reaches
C26_Witness ==
    /\ cstack = <<>>
    /\ \E h \in DOMAIN constants :
          /\ Len(fconsts[h]) = 2
          /\ \E a \in ReachableOperands(h) : ReachableOperands(a) # {}
          /\ ReachableOperands(h) \subseteq DOMAIN constants
          /\ Len(arena) = Cardinality(ReachableOperands(h)) + 1

(***************************************************************************)
(* get_type: properties                                                    *)
(***************************************************************************)
Computed == result # NotComputed

IsGep == expr.kind = "GetElementPtr"

\* C3: a GetElementPtr whose address has type pointer-to-T and whose index
\* list is empty has type pointer-to-T.
C3_GepNoIndices ==
    (Computed /\ IsGep /\ expr.indices = <<>>
        /\ expr.address.ty.kind = "PointerType")
    => result = expr.address.ty

\* C4: at a struct type with n fields, a literal index k < n selects field k
\* and the walk goes on from there; any other index aborts the computation.
C4_GepStructStep ==
    (Computed /\ IsGep /\ Len(expr.indices) >= 2
        /\ expr.address.ty.kind = "PointerType"
        /\ expr.address.ty.pointee_type.kind = "StructType")
    => LET fields == expr.address.ty.pointee_type.element_types
           index == expr.indices[2]
           rest == SubSeq(expr.indices, 3, Len(expr.indices))
       IN  IF index.kind = "Int" /\ index.value < Len(fields)
           THEN /\ result = gep_type(fields[index.value + 1], rest, TheTypes)
                /\ rest = <<>> => result = pointer_to(fields[index.value + 1])
           ELSE result = Panic

\* the struct step selected field 1 of { i32, i8 }
C4_Witness ==
    /\ expr = GetElementPtr(Null(pointer_to(PlainStruct)),
                            <<ConstInt(64, 0), ConstInt(64, 1)>>)
    /\ result = pointer_to(i8)

\* the struct step met an index that is no literal, and aborted
C4_WitnessAbort ==
    /\ expr = GetElementPtr(Null(pointer_to(PlainStruct)),
                            <<ConstInt(64, 0), Undef(i64)>>)
    /\ result = Panic

\* C5: a GEP into a pointer to [10 x i32] with indices [0, i] has type
\* pointer-to-i32 for every i; pointers, vectors and arrays are left one
\* level per index, whatever the index is.
C5_GepSequential ==
    (Computed /\ IsGep)
    => LET a == expr.address.ty
           n == Len(expr.indices)
       IN  /\ (a = pointer_to(Array10) /\ n = 2 /\ expr.indices[1] = ConstInt(64, 0))
                   => result = pointer_to(i32)
           /\ (a.kind = "PointerType" /\ n = 1) => result = pointer_to(a.pointee_type)
           /\ (a.kind = "PointerType" /\ n = 2
                   /\ a.pointee_type.kind \in {"ArrayType", "VectorType", "PointerType"})
                   => result = pointer_to(IF a.pointee_type.kind = "PointerType"
                                          THEN a.pointee_type.pointee_type
                                          ELSE a.pointee_type.element_type)
           /\ (a = VectorType(pointer_to(i32), 2) /\ n = 2) => result = pointer_to(i32)

\* [0, undef] into a pointer to [10 x i32]
C5_Witness ==
    /\ expr = GetElementPtr(Null(pointer_to(Array10)), <<ConstInt(64, 0), Undef(i64)>>)
    /\ result = pointer_to(i32)

\* C10: an InsertValue has the type of its aggregate operand, whatever the
\* element and the indices are.
C10_InsertValueType ==
    (Computed /\ expr.kind = "InsertValue") => result = expr.aggregate.ty

\* an i8 inserted at index 2 of { i32, i8 }, where ExtractValue would abort
C10_Witness ==
    /\ expr = InsertValue(Undef(PlainStruct), Undef(i8), <<2>>)
    /\ result = PlainStruct
    /\ get_type(ExtractValue(expr.aggregate, expr.indices), TheTypes) = Panic

\* C11: an ExtractValue with an empty index list has the type of its
\* aggregate operand, whatever that type is, and the computation does not
\* abort.
C11_ExtractValueNoIndices ==
    (Computed /\ expr.kind = "ExtractValue" /\ expr.indices = <<>>)
    => (result = expr.aggregate.ty /\ result # Panic)

\* no index, on an operand that is no aggregate at all
C11_Witness ==
    /\ expr = ExtractValue(Undef(i32), <<>>)
    /\ result = i32

\* C12: with an index left, ev_type goes one level down: at an array to the
\* element type for every index value, at a struct with n fields to field k
\* for k < n and to an abort for k >= n, at any other type to an abort.
C12_ExtractValueWalk ==
    (Computed /\ expr.kind = "ExtractValue" /\ expr.indices # <<>>)
    => LET t == expr.aggregate.ty
           k == expr.indices[1]
           rest == Tail(expr.indices)
       IN  CASE t.kind = "ArrayType" ->
                    /\ result = ev_type(t.element_type, rest)
                    /\ rest = <<>> => result = t.element_type
             [] t.kind = "StructType" ->
                    IF k < Len(t.element_types)
                    THEN /\ result = ev_type(t.element_types[k + 1], rest)
                         /\ rest = <<>> => result = t.element_types[k + 1]
                    ELSE result = Panic
             [] OTHER -> result = Panic

\* index 2 of [2 x i8]: past the end of the array, and still the element type
C12_Witness ==
    /\ expr = ExtractValue(Undef(SmallArray), <<2>>)
    /\ result = i8

\* field 2 of { i32, i8 }: the walk aborts
C12_WitnessAbort ==
    /\ expr = ExtractValue(Undef(PlainStruct), <<2>>)
    /\ result = Panic

\* the type of an operand that is a literal, an undef or a null
OperandType(c) == IF c.kind = "Int" THEN IntegerType(c.bits) ELSE c.ty

\* C18: get_type aborts on a constant expression whose two value operands
\* are taken to have matching types and do not: the binary operations other
\* than the shifts, ShuffleVector, ICmp, FCmp, and the two values of Select.
C18_MismatchedOperandsFatal ==
    /\ (Computed /\ expr.kind \in SameTypeOps \cup {"ShuffleVector", "ICmp", "FCmp"}
            /\ OperandType(expr.operand0) # OperandType(expr.operand1))
        => result = Panic
    /\ (Computed /\ expr.kind = "Select"
            /\ OperandType(expr.true_value) # OperandType(expr.false_value))
        => result = Panic

\* C19: a binary constant expression whose operands have one type has that
\* type; a shift has the type of operand0 whatever operand1 is.
C19_BinaryOpType ==
    /\ (Computed /\ expr.kind \in SameTypeOps \cup LeftTypeOps
            /\ OperandType(expr.operand0) = OperandType(expr.operand1))
        => result = OperandType(expr.operand0)
    /\ (Computed /\ expr.kind \in LeftTypeOps) => result = OperandType(expr.operand0)

\* an i32 shifted by an i8, in a build with debug assertions
C19_Witness ==
    /\ debug_assertions
    /\ expr = BinOp("Shl", ConstInt(32, 5), Undef(i8))
    /\ result = i32

\* an addition of two i32
C19_WitnessAdd ==
    /\ expr = BinOp("Add", ConstInt(32, 5), ConstInt(32, 5))
    /\ result = i32

\* C20: a ShuffleVector of two operands of one vector type and a vector mask
\* is a vector of operand0's element type as long as the mask, whatever the
\* length of the operands and the element type of the mask; an operand0 or a
\* mask that is no vector aborts.
C20_ShuffleVectorType ==
    (Computed /\ expr.kind = "ShuffleVector")
    => LET t0 == OperandType(expr.operand0)
           t1 == OperandType(expr.operand1)
           tm == OperandType(expr.mask)
       IN  /\ t0.kind # "VectorType" => result = Panic
           /\ tm.kind # "VectorType" => result = Panic
           /\ (t0.kind = "VectorType" /\ tm.kind = "VectorType")
                => /\ result \in {VectorType(t0.element_type, tm.num_elements), Panic}
                   /\ t0 = t1 => result = VectorType(t0.element_type, tm.num_elements)

\* two <4 x i32> shuffled with a mask of type <2 x i8>, in a build with
\* debug assertions
C20_Witness ==
    /\ debug_assertions
    /\ expr = ShuffleVector(Undef(VectorType(i32, 4)), Undef(VectorType(i32, 4)),
                            Undef(VectorType(i8, 2)))
    /\ result = VectorType(i32, 2)

\* a mask that is no vector
C20_WitnessAbort ==
    /\ expr = ShuffleVector(Undef(VectorType(i32, 4)), Undef(VectorType(i32, 4)),
                            ConstInt(32, 5))
    /\ result = Panic

\* C22: a GEP step at a named struct looks the name up in the table and,
\* for a literal index k, selects field k of the defined body; it aborts
\* when the name is absent, the entry is opaque, the defined body is no
\* struct type, the index is no literal integer, or k is out of range.
C22_GepNamedStructStep ==
    (Computed /\ IsGep /\ Len(expr.indices) >= 2
        /\ expr.address.ty.kind = "PointerType"
        /\ expr.address.ty.pointee_type.kind = "NamedStructType")
    => LET name == expr.address.ty.pointee_type.name
           index == expr.indices[2]
           rest == SubSeq(expr.indices, 3, Len(expr.indices))
           resolves ==
               /\ name \in DOMAIN TheTypes
               /\ TheTypes[name] # Opaque
               /\ TheTypes[name].ty.kind = "StructType"
               /\ index.kind = "Int"
               /\ index.value < Len(TheTypes[name].ty.element_types)
       IN  IF resolves
           THEN LET field == TheTypes[name].ty.element_types[index.value + 1]
                IN  /\ result = gep_type(field, rest, TheTypes)
                    /\ rest = <<>> => result = pointer_to(field)
           ELSE result = Panic

\* field 1 of %struct.List, found through the table
C22_Witness ==
    /\ expr = GetElementPtr(Null(pointer_to(NamedStructType("struct.List"))),
                            <<ConstInt(64, 0), ConstInt(64, 1)>>)
    /\ result = pointer_to(pointer_to(NamedStructType("struct.List")))

\* the entry is defined, but not as a struct type: the step aborts
C22_WitnessAbort ==
    /\ expr = GetElementPtr(Null(pointer_to(NamedStructType("struct.Scalar"))),
                            <<ConstInt(64, 0), ConstInt(64, 0)>>)
    /\ result = Panic

\* the name is not in the table: the step aborts
C22_WitnessAbsent ==
    /\ expr = GetElementPtr(Null(pointer_to(NamedStructType("struct.Missing"))),
                            <<ConstInt(64, 0), ConstInt(64, 0)>>)
    /\ result = Panic

\* C27: an ExtractValue with an index left at a named struct reference
\* aborts, also when the table holds a defined body for the name and the
\* index is in range; a GetElementPtr step at the same type, with the same
\* index, goes through the table to the field.
C27_ExtractValueNamedStruct ==
    (Computed /\ expr.kind = "ExtractValue" /\ expr.indices # <<>>
        /\ expr.aggregate.ty.kind = "NamedStructType")
    => LET t == expr.aggregate.ty
           k == expr.indices[1]
           def == named_struct_def(TheTypes, t.name)
       IN  /\ result = Panic
           /\ (def \notin {NoDef, Opaque} /\ def.ty.kind = "StructType"
                   /\ k < Len(def.ty.element_types))
               => gep_type(t, <<ConstInt(64, k)>>, TheTypes)
                      = pointer_to(def.ty.element_types[k + 1])

\* field 0 of an undef %struct.List, whose body { i32, %struct.List* } is in
\* the table: the ExtractValue aborts
C27_Witness ==
    /\ expr = ExtractValue(Undef(NamedStructType("struct.List")), <<0>>)
    /\ named_struct_def(TheTypes, "struct.List").ty.element_types[1] = i32
    /\ result = Panic

\* C21: an ICmp or FCmp has the 1-bit boolean type when operand0 is no
\* vector, and the type vector of booleans, as long as operand0, when it is
\* one; whenever a type is returned it is that one.
C21_ComparisonType ==
    (Computed /\ expr.kind \in {"ICmp", "FCmp"})
    => LET t0 == OperandType(expr.operand0)
           expected == IF t0.kind = "VectorType"
                       THEN VectorType(IntegerType(1), t0.num_elements)
                       ELSE IntegerType(1)
       IN  /\ result \in {expected, Panic}
           /\ (t0 = OperandType(expr.operand1) \/ ~debug_assertions) => result = expected

\* two <4 x i32> compared, in a build with debug assertions
C21_Witness ==
    /\ debug_assertions
    /\ expr = ICmp(Undef(VectorType(i32, 4)), Undef(VectorType(i32, 4)))
    /\ result = VectorType(IntegerType(1), 4)

\* two doubles compared
C21_WitnessScalar ==
    /\ expr = FCmp(Undef(Double), Undef(Double))
    /\ result = IntegerType(1)

(***************************************************************************)
(* Decoding of integer and struct constants: properties                    *)
(***************************************************************************)
\* C25: the Constant::Int decoded from a foreign integer has the width of
\* the declared integer type as bits, and as value the foreign value
\* zero-extended into the 64-bit field: the low bits are those of the foreign
\* value and every bit from position bits upward is 0, so value < 2^bits. A
\* 32-bit -1 is stored as 2^32 - 1, never as 2^64 - 1.
C25_IntZeroExtended ==
    (fvalue.kind = "ConstantInt" /\ decoded # NotDecoded)
    => /\ decoded.kind = "Int"
       /\ decoded.bits = fvalue.ty.bits
       /\ \A i \in 0..(FieldBits - 1) :
             decoded.value[i] = IF i < decoded.bits THEN fvalue.ap.bit[i] ELSE 0
       /\ fvalue = ForeignInt(i32, "minus_one")
             => /\ decoded.value = [i \in 0..(FieldBits - 1) |-> IF i < 32 THEN 1 ELSE 0]
                /\ decoded.value # [i \in 0..(FieldBits - 1) |-> 1]

\* the 32-bit -1 has been decoded: 32 ones below 32 zeros
C25_Witness ==
    /\ fvalue = ForeignInt(i32, "minus_one")
    /\ decoded = ConstInt(32, [i \in 0..(FieldBits - 1) |-> IF i < 32 THEN 1 ELSE 0])

\* the least 8-bit value has been decoded: bit 7 alone is set
C25_WitnessMin ==
    /\ fvalue = ForeignInt(i8, "min")
    /\ decoded = ConstInt(8, [i \in 0..(FieldBits - 1) |-> IF i = 7 THEN 1 ELSE 0])

\* the declared type of the foreign struct is a named struct with a body
NamedWithBody ==
    /\ fvalue.kind = "ConstantStruct"
    /\ fvalue.ty.kind = "NamedStructType"
    /\ named_struct_def(TheTypes, fvalue.ty.name) # Opaque

\* C30: the Constant::Struct decoded from a foreign value whose declared
\* type is a named struct has as many values as the body the table holds for
\* the name has fields, and the packed flag of that body; get_type on it is
\* the anonymous struct type made of the types of its values, not the named
\* struct reference; when the named struct is opaque the decoding aborts.
C30_NamedStructConstant ==
    (fvalue.kind = "ConstantStruct" /\ fvalue.ty.kind = "NamedStructType"
        /\ decoded # NotDecoded)
    => LET def == named_struct_def(TheTypes, fvalue.ty.name)
       IN  IF def = Opaque THEN decoded = Panic
           ELSE /\ decoded.kind = "Struct"
                /\ Len(decoded.values) = Len(def.ty.element_types)
                /\ decoded.is_packed = def.ty.is_packed
                /\ decoded_ty # NotComputed =>
                        /\ decoded_ty =
                              StructType([i \in 1..Len(decoded.values) |->
                                            OperandType(decoded.values[i])],
                                         decoded.is_packed)
                        /\ decoded_ty # fvalue.ty
                        /\ decoded_ty.kind = "StructType"

\* a %struct.Packed constant: two values, packed, of type <{ i8, i32 }>
C30_Witness ==
    /\ NamedWithBody
    /\ fvalue.ty = NamedStructType("struct.Packed")
    /\ decoded.kind = "Struct"
    /\ Len(decoded.values) = 2
    /\ decoded.is_packed
    /\ decoded_ty = StructType(<<i8, i32>>, TRUE)

\* a %struct.List constant: of type { i32, %struct.List* }
C30_WitnessList ==
    /\ NamedWithBody
    /\ fvalue.ty = NamedStructType("struct.List")
    /\ decoded_ty = StructType(<<i32, pointer_to(NamedStructType("struct.List"))>>, FALSE)

\* a constant of the opaque %struct.Opaque: the decoding aborted
C30_WitnessAbort ==
    /\ fvalue.kind = "ConstantStruct"
    /\ fvalue.ty = NamedStructType("struct.Opaque")
    /\ decoded = Panic

(***************************************************************************)
(* Named struct table: properties                                          *)
(***************************************************************************)
RECURSIVE RefsOf(_)
\* the named struct references embedded in a Type
RefsOf(t) ==
    CASE t.kind = "NamedStructType" -> {t}
      [] t.kind = "PointerType" -> RefsOf(t.pointee_type)
      [] t.kind = "StructType" ->
            UNION {RefsOf(t.element_types[i]) : i \in 1..Len(t.element_types)}
      [] OTHER -> {}

\* every reference the module holds: in the types handed out, and in the bodies
RefsInModule ==
    UNION {RefsOf(t) : t \in produced} \cup UNION {RefsOf(cells[c]) : c \in 1..Len(cells)}

EntryState(table, heap, n) ==
    IF n \notin DOMAIN table THEN "absent"
    ELSE IF table[n].cell = NoCell THEN "opaque"
    ELSE IF heap[table[n].cell] = Placeholder THEN "opaque"
    ELSE "defined"

\* the body a reference resolves to (Weak::upgrade, then read)
Resolve(r) == cells[r.ty]

\* the named struct n refers to itself, directly or through one other struct
InCycle(n) ==
    \E i \in 1..Len(ftypes[n].body) :
        LET m == ftypes[n].body[i]
        IN  \/ m = n
            \/ /\ m \in StructNames
               /\ \E j \in 1..Len(ftypes[m].body) : ftypes[m].body[j] = n

\* C6: recursive type closure. After a build every reference to a named
\* struct, in a body or in a type handed out, has an entry in the table; when
\* the entry is defined the reference resolves, to a body equal to the body
\* of the entry; a struct that has a body has a defined entry.
C6_Closure ==
    tstack = <<>> =>
        \A r \in RefsInModule :
            /\ r.name \in DOMAIN tynamemap
            /\ ~ftypes[r.name].opaque =>
                    EntryState(tynamemap, cells, r.name) = "defined"
            /\ EntryState(tynamemap, cells, r.name) = "defined" =>
                    /\ r.ty # NoCell
                    /\ TypeEq(Resolve(r), cells[tynamemap[r.name].cell])
                    /\ Len(Resolve(r).element_types) = Len(ftypes[r.name].body)

\* a build is over in which one struct refers to itself and two refer to
\* each other, and references to them are held inside bodies
C6_Witness ==
    /\ tstack = <<>>
    /\ \E n \in StructNames : \E m \in StructNames :
          /\ n # m
          /\ \E i \in 1..Len(ftypes[n].body) : ftypes[n].body[i] = n
          /\ \E i \in 1..Len(ftypes[n].body) : ftypes[n].body[i] = m
          /\ \E i \in 1..Len(ftypes[m].body) : ftypes[m].body[i] = n
          /\ EntryState(tynamemap, cells, n) = "defined"
          /\ EntryState(tynamemap, cells, m) = "defined"
          /\ \E r \in RefsOf(cells[tynamemap[m].cell]) : r.name = n /\ r.ty # NoCell

\* C7: the translation of a named struct terminates, also on bodies that
\* refer to their own name or to each other: no name is entered twice, so at
\* most NumStructs bodies are ever open, and every translation that started
\* comes to its end.
C7_Terminates ==
    /\ [](Len(tstack) <= NumStructs)
    /\ [](\A i \in 1..Len(tstack) : \A j \in 1..Len(tstack) :
            tstack[i].name = tstack[j].name => i = j)
    /\ (tstack # <<>>) ~> (tstack = <<>>)

\* the translation of a struct inside a cycle is over
C7_Witness ==
    /\ tstack = <<>>
    /\ \E n \in StructNames :
          /\ InCycle(n)
          /\ \E i \in 1..Len(ftypes[n].body) : ftypes[n].body[i] \in StructNames \ {n}
          /\ EntryState(tynamemap, cells, n) = "defined"

\* C8: pre-registration order. The entry of a named struct goes from absent
\* to opaque to defined and never back; while a body is being translated the
\* placeholder of its name is in the table; an entry is defined only once
\* its whole body is built.
C8_EntryOrder ==
    /\ [][\A n \in StructNames :
            LET a == EntryState(tynamemap, cells, n)
                b == EntryState(tynamemap', cells', n)
            IN  /\ a = "absent" => b \in {"absent", "opaque"}
                /\ a = "opaque" => b \in {"opaque", "defined"}
                /\ a = "defined" => b = "defined"]_vars
    /\ [](\A i \in 1..Len(tstack) :
            EntryState(tynamemap, cells, tstack[i].name) = "opaque")
    /\ [](\A n \in StructNames :
            EntryState(tynamemap, cells, n) = "defined" =>
                Len(cells[tynamemap[n].cell].element_types) = Len(ftypes[n].body))

\* one body is defined while another is still being translated behind its
\* placeholder
C8_Witness ==
    /\ tstack # <<>>
    /\ EntryState(tynamemap, cells, tstack[Len(tstack)].name) = "opaque"
    /\ \E n \in StructNames :
          ~ftypes[n].opaque /\ EntryState(tynamemap, cells, n) = "defined"

\* references written by hand, with no body attached
BodilessRefs == {NamedStructRef(n, NoCell) : n \in StructNames}

\* C9: two named struct references are equal exactly when their names are,
\* whatever bodies they resolve to, also when one of them has no body; so
\* are the pointers to them.
C9_EqualByName ==
    \A a \in RefsInModule \cup BodilessRefs : \A b \in RefsInModule \cup BodilessRefs :
        /\ TypeEq(a, b) <=> a.name = b.name
        /\ TypeEq(pointer_to(a), pointer_to(b)) <=> a.name = b.name

\* the module holds a reference with a body, to a struct that refers to itself
C9_Witness ==
    \E a \in RefsInModule :
        /\ a.ty # NoCell
        /\ Resolve(a) # Placeholder
        /\ \E r \in RefsOf(Resolve(a)) : r.name = a.name
        /\ TypeEq(a, NamedStructRef(a.name, NoCell))

\* C24: after a build every named struct that was encountered has an entry
\* in the table; a struct declared without a body has an entry marked opaque,
\* not a missing one, and every reference to it carries no body; a lookup
\* finds nothing only for the names that were never encountered.
C24_OpaqueEntries ==
    tstack = <<>> =>
        /\ \A r \in RefsInModule :
                /\ LookupNamed(tynamemap, r.name) # Absent
                /\ ftypes[r.name].opaque =>
                        /\ LookupNamed(tynamemap, r.name) = OpaqueEntry
                        /\ EntryState(tynamemap, cells, r.name) = "opaque"
                        /\ r.ty = NoCell
        /\ \A n \in StructNames :
                LookupNamed(tynamemap, n) = Absent
                    <=> (\A r \in RefsInModule : r.name # n)

\* a defined body holds a reference to a struct without a body: the
\* reference carries no body and the name's entry is opaque
C24_Witness ==
    /\ tstack = <<>>
    /\ \E n \in StructNames : \E m \in StructNames :
          /\ ftypes[n].opaque
          /\ LookupNamed(tynamemap, n) = OpaqueEntry
          /\ EntryState(tynamemap, cells, m) = "defined"
          /\ \E r \in RefsOf(cells[tynamemap[m].cell]) : r.name = n /\ r.ty = NoCell

\* a build is over that never met one of the module's named structs
C24_WitnessAbsent ==
    /\ tstack = <<>>
    /\ tcalls = MaxTypeCalls
    /\ \E n \in StructNames : LookupNamed(tynamemap, n) = Absent

====
